---- MODULE Spec2Model ----
(***************************************************************************)
(* Model of ode.py: the three fixed-step integrators RK4, RK2 and Euler.   *)
(*                                                                         *)
(* One call of an integrator is a run of the state machine: the arguments  *)
(* are chosen in Init, every statement of the function body is one action, *)
(* and every call of the derivative function f either returns or raises.   *)
(*                                                                         *)
(* Python floats are binary floating-point numbers.  A float is modelled   *)
(* as a pair <<m, e>> standing for m * 2^e, and every arithmetic operation *)
(* rounds its exact result to the nearest number with a significand of at  *)
(* most Prec bits, ties to even (IEEE 754 round-to-nearest-even).  The     *)
(* program runs with 53 bits; the model runs with Prec bits.  The exponent *)
(* is unbounded: overflow to inf and underflow are outside the model.      *)
(***************************************************************************)
EXTENDS Integers, Sequences, FiniteSets

\* Width of the significand, in bits.
Prec == 24
\* The bounded argument set takes N from 0..MaxN.
MaxN == 3

----------------------------------------------------------------------------
(* Binary floating point, round to nearest, ties to even.                  *)

RECURSIVE Pow2(_)
Pow2(k) == IF k <= 0 THEN 1 ELSE 2 * Pow2(k - 1)

Abs(a) == IF a < 0 THEN -a ELSE a

\* Number of bits of the natural number a (0 for 0).
RECURSIVE BitLen(_)
BitLen(a) == IF a = 0 THEN 0 ELSE 1 + BitLen(a \div 2)

Zero == <<0, 0>>

\* The one representation of m * 2^e kept in the state: m odd, or Zero.
RECURSIVE Canon(_, _)
Canon(m, e) ==
    IF m = 0 THEN Zero
    ELSE IF m % 2 = 0 THEN Canon(m \div 2, e + 1)
    ELSE <<m, e>>

\* m * 2^e rounded to Prec significant bits, ties to even.
Round(m, e) ==
    LET a    == Abs(m)
        drop == BitLen(a) - Prec
    IN  IF drop <= 0 THEN Canon(m, e)
        ELSE LET q    == a \div Pow2(drop)
                 r    == a % Pow2(drop)
                 half == Pow2(drop - 1)
                 up   == r > half \/ (r = half /\ q % 2 = 1)
                 qr   == IF up THEN q + 1 ELSE q
             IN  Canon(IF m < 0 THEN -qr ELSE qr, e + drop)

\* The same number with a significand of exactly Prec bits (a # Zero).
LeftNorm(a) ==
    LET s == Prec - BitLen(Abs(a[1]))
    IN  <<a[1] * Pow2(s), a[2] - s>>

FromInt(n) == Round(n, 0)

FNeg(a) == <<-a[1], a[2]>>

\* a + b.  The operand of smaller exponent is aligned to the other; bits
\* that fall more than two places below it are kept as one sticky bit,
\* which rounds as they do.
FAdd(a, b) ==
    IF a = Zero THEN b
    ELSE IF b = Zero THEN a
    ELSE LET na == LeftNorm(a)
             nb == LeftNorm(b)
             hi == IF na[2] >= nb[2] THEN na ELSE nb
             lo == IF na[2] >= nb[2] THEN nb ELSE na
             g  == hi[2] - lo[2]
         IN  IF g <= 2 THEN Round(hi[1] * Pow2(g) + lo[1], lo[2])
             ELSE IF g >= Prec + 2 THEN Canon(hi[1], hi[2])
             ELSE LET q == lo[1] \div Pow2(g - 2)
                      r == lo[1] % Pow2(g - 2)
                  IN  Round(2 * (4 * hi[1] + q) + (IF r # 0 THEN 1 ELSE 0),
                            hi[2] - 3)

FSub(a, b) == FAdd(a, FNeg(b))

\* a * b.  The product of two Prec-bit significands is formed from their
\* halves of Prec \div 2 bits; its low bits are kept as one sticky bit.
FMul(a, b) ==
    IF a = Zero \/ b = Zero THEN Zero
    ELSE LET na   == LeftNorm(a)
             nb   == LeftNorm(b)
             neg  == (a[1] < 0) # (b[1] < 0)
             hb   == Prec \div 2
             w    == Pow2(hb)
             ah   == Abs(na[1]) \div w
             al   == Abs(na[1]) % w
             bh   == Abs(nb[1]) \div w
             bl   == Abs(nb[1]) % w
             low  == al * bl
             mid  == ah * bl + al * bh + (low \div w)
             top  == ah * bh + (mid \div w)
             midr == mid % w
             lowr == low % w
             cut  == Pow2(hb - 3)
             sig  == 8 * top + (midr \div cut)
             st   == IF (midr % cut) # 0 \/ lowr # 0 THEN 1 ELSE 0
             mag  == 2 * sig + st
         IN  Round(IF neg THEN -mag ELSE mag, na[2] + nb[2] + 2 * hb - 4)

\* a / n for an integer 1 <= n <= 16 (Python converts the int exactly).
FDivInt(a, n) ==
    IF a = Zero THEN Zero
    ELSE LET na  == LeftNorm(a)
             num == Abs(na[1]) * 32
             q   == num \div n
             r   == num % n
             mag == 2 * q + (IF r # 0 THEN 1 ELSE 0)
         IN  Round(IF a[1] < 0 THEN -mag ELSE mag, na[2] - 6)

\* Comparisons: the rounded difference has the sign of the exact one.
FLess(a, b) == FSub(a, b)[1] < 0
FLeq(a, b) == FSub(a, b)[1] <= 0

----------------------------------------------------------------------------
(* The arguments of a call.                                                *)

One == FromInt(1)
Two == FromInt(2)
\* A float with a full significand: the floats next to Big are 2 apart.
Big == <<1, Prec>>
BigPlus4 == FAdd(Big, FromInt(4))

Methods == {"RK4", "RK2", "Euler"}

\* The derivative functions a caller passes: the docstrings' f(x,t) = x + t,
\* f(x,t) = x and the constant f(x,t) = 1.
Fs == {"xplust", "x", "one"}

\* f(a, b) when the call returns.
FApply(fn, a, b) ==
    CASE fn = "xplust" -> FAdd(a, b)
      [] fn = "x"      -> a
      [] fn = "one"    -> One

\* What a call of f may raise instead of returning.
Excs == {"ValueError", "ArithmeticError"}

Times == {Zero, One, Big, BigPlus4}
XIs == {Zero, One}

\* <<N, xi, ti, tf>>: the bounded set, and the docstrings' call
\* (f, 10, 0.0, 0.0, 10.0).
DocArgs == <<10, Zero, Zero, FromInt(10)>>
ArgSet == ((0..MaxN) \X XIs \X Times \X Times) \cup {DocArgs}

----------------------------------------------------------------------------
(* numpy.linspace(start, stop, num) with endpoint=True, num >= 0.          *)

Linspace(start, stop, num) ==
    LET div   == num - 1
        delta == FSub(stop, start)
        step  == FDivInt(delta, div)
        y(j)  == IF div > 0
                 THEN IF step = Zero
                      THEN FMul(FDivInt(FromInt(j), div), delta)
                      ELSE FMul(FromInt(j), step)
                 ELSE FMul(FromInt(j), delta)
    IN  [j \in 1..num |->
            IF num > 1 /\ j = num THEN stop ELSE FAdd(y(j - 1), start)]

----------------------------------------------------------------------------
(* The statements of the three function bodies.                            *)

\* Mutant of StepSize: the grid's own spacing, (tf-ti)/(N-1).
StepSizeOfGrid(a, b, n) ==
    IF n = 1 THEN FSub(b, a) ELSE FDivInt(FSub(b, a), n - 1)

\* h = (tf-ti)/N, for N # 0.
StepSize(a, b, n) == FDivInt(FSub(b, a), n)

\* Mutant of Zeros: an array one element short.
ZerosShort(n) == [j \in 1..(n - 1) |-> Zero]

\* x = np.zeros(len(t))
Zeros(n) == [j \in 1..n |-> Zero]

\* Mutant of K1: the stage is not scaled by h.
K1Unscaled(hv, fn, xv, tv) == FApply(fn, xv, tv)

\* h * f(x[i], t[i])
K1(hv, fn, xv, tv) == FMul(hv, FApply(fn, xv, tv))

\* x[i] + k/2 and t[i] + h/2, the arguments of the half-step stages.
XHalf(xv, kv) == FAdd(xv, FDivInt(kv, 2))
THalf(tv, hv) == FAdd(tv, FDivInt(hv, 2))

\* Mutant of RK4Update: the four stages weighted alike.
RK4UpdateUnweighted(xv, a1, a2, a3, a4) ==
    FAdd(xv, FMul(FDivInt(One, 6), FAdd(FAdd(FAdd(a1, a2), a3), a4)))

\* x[i] + (1/6) * (k1+2*k2+2*k3+k4)
RK4Update(xv, a1, a2, a3, a4) ==
    FAdd(xv, FMul(FDivInt(One, 6),
                  FAdd(FAdd(FAdd(a1, FMul(Two, a2)), FMul(Two, a3)), a4)))

\* Mutant of RK2Update: the trapezoidal variant, the average of k1 and k2.
RK2UpdateAverage(xv, a1, a2) == FAdd(xv, FDivInt(FAdd(a1, a2), 2))

\* x[i] + k2
RK2Update(xv, a1, a2) == FAdd(xv, a2)

\* Mutant of EulerUpdate: the derivative is not scaled by h.
EulerUpdateUnscaled(xv, hv, fn, tv) == FAdd(xv, FApply(fn, xv, tv))

\* x[i] + h * f(x[i], t[i])
EulerUpdate(xv, hv, fn, tv) == FAdd(xv, FMul(hv, FApply(fn, xv, tv)))

\* Mutant of LoopCount: one pass for every grid point, the last included.
LoopCountAll(n) == n

\* for i in range(len(t)-1): the number of passes of the loop.
LoopCount(n) == n - 1

\* Mutant of NextIndex: the pass assigns x[i], overwriting its own input.
NextIndexInPlace(iv) == iv

\* x[i+1] = ...: the index a pass of the loop assigns.
NextIndex(iv) == iv + 1

\* Mutant of Uncaught: the exception is caught and another one raised.
Wrapped(exc) == [pc |-> "raised", err |-> "RuntimeError"]

\* An exception raised inside the body, which has no try statement: the
\* call ends and the caller gets that exception.
Uncaught(exc) == [pc |-> "raised", err |-> exc]

----------------------------------------------------------------------------
VARIABLES
    method,     \* the function called: "RK4", "RK2" or "Euler"
    f, N, xi, ti, tf,   \* its arguments
    pc,         \* the statement to run next, "returned" or "raised"
    h, t, x,    \* the locals; <<>> before their assignment
    i,          \* the loop index; -1 before the loop
    k1, k2, k3, k4,
    calls,      \* history: <<i, time argument>> of every call of f so far
    thrown,     \* history: what f raised, "none" if it has not
    err,        \* the exception the caller gets, "none" if none
    result      \* the array returned; <<>> before the return

vars == <<method, f, N, xi, ti, tf, pc, h, t, x, i, k1, k2, k3, k4,
          calls, thrown, err, result>>

args == <<method, f, N, xi, ti, tf>>
ks == <<k1, k2, k3, k4>>

Unset == <<>>

Init ==
    /\ method \in Methods
    /\ f \in Fs
    /\ \E a \in ArgSet : N = a[1] /\ xi = a[2] /\ ti = a[3] /\ tf = a[4]
    /\ pc = "h"
    /\ h = Unset /\ t = Unset /\ x = Unset
    /\ i = -1
    /\ k1 = Unset /\ k2 = Unset /\ k3 = Unset /\ k4 = Unset
    /\ calls = <<>>
    /\ thrown = "none"
    /\ err = "none"
    /\ result = Unset

\* x[i] and t[i] of the code, whose indices start at 0: a sequence's start
\* at 1.
xi_ == x[i + 1]
ti_ == t[i + 1]

\* h = (tf-ti)/N: a division by the int 0 raises ZeroDivisionError.
ComputeH ==
    /\ pc = "h"
    /\ \/ /\ N = 0
          /\ pc' = Uncaught("ZeroDivisionError").pc
          /\ err' = Uncaught("ZeroDivisionError").err
          /\ h' = h
       \/ /\ N # 0
          /\ h' = StepSize(ti, tf, N)
          /\ pc' = "linspace"
          /\ err' = err
    /\ UNCHANGED <<args, t, x, i, ks, calls, thrown, result>>

\* t = np.linspace(ti, tf, N)
BuildGrid ==
    /\ pc = "linspace"
    /\ t' = Linspace(ti, tf, N)
    /\ pc' = "zeros"
    /\ UNCHANGED <<args, h, x, i, ks, calls, thrown, err, result>>

\* x = np.zeros(len(t))
AllocX ==
    /\ pc = "zeros"
    /\ x' = Zeros(Len(t))
    /\ pc' = "seed"
    /\ UNCHANGED <<args, h, t, i, ks, calls, thrown, err, result>>

\* x[0] = xi
Seed ==
    /\ pc = "seed"
    /\ x' = [x EXCEPT ![1] = xi]
    /\ pc' = "for"
    /\ UNCHANGED <<args, h, t, i, ks, calls, thrown, err, result>>

\* for i in range(len(t)-1)
ForNext ==
    /\ pc = "for"
    /\ \/ /\ i + 1 < LoopCount(Len(t))
          /\ i' = i + 1
          /\ pc' = IF method = "Euler" THEN "step" ELSE "k1"
       \/ /\ ~(i + 1 < LoopCount(Len(t)))
          /\ i' = i
          /\ pc' = "return"
    /\ UNCHANGED <<args, h, t, x, ks, calls, thrown, err, result>>

\* A call f(., tv) that raises exc.
FRaises(tv, exc) ==
    /\ calls' = Append(calls, <<i, tv>>)
    /\ thrown' = exc
    /\ pc' = Uncaught(exc).pc
    /\ err' = Uncaught(exc).err
    /\ UNCHANGED <<args, h, t, x, i, ks, result>>

\* k1 = h * f(x[i],t[i])
StageK1 ==
    /\ pc = "k1"
    /\ \/ /\ k1' = K1(h, f, xi_, ti_)
          /\ calls' = Append(calls, <<i, ti_>>)
          /\ pc' = "k2"
          /\ UNCHANGED <<args, h, t, x, i, k2, k3, k4, thrown, err, result>>
       \/ \E exc \in Excs : FRaises(ti_, exc)

\* k2 = h * f(x[i] + k1/2, t[i] + h/2)
StageK2 ==
    /\ pc = "k2"
    /\ \/ /\ k2' = K1(h, f, XHalf(xi_, k1), THalf(ti_, h))
          /\ calls' = Append(calls, <<i, THalf(ti_, h)>>)
          /\ pc' = IF method = "RK4" THEN "k3" ELSE "update"
          /\ UNCHANGED <<args, h, t, x, i, k1, k3, k4, thrown, err, result>>
       \/ \E exc \in Excs : FRaises(THalf(ti_, h), exc)

\* k3 = h * f(x[i] + k2/2, t[i] + h/2)
StageK3 ==
    /\ pc = "k3"
    /\ \/ /\ k3' = K1(h, f, XHalf(xi_, k2), THalf(ti_, h))
          /\ calls' = Append(calls, <<i, THalf(ti_, h)>>)
          /\ pc' = "k4"
          /\ UNCHANGED <<args, h, t, x, i, k1, k2, k4, thrown, err, result>>
       \/ \E exc \in Excs : FRaises(THalf(ti_, h), exc)

\* k4 = h * f(x[i]+k3,t[i]+h)
StageK4 ==
    /\ pc = "k4"
    /\ \/ /\ k4' = K1(h, f, FAdd(xi_, k3), FAdd(ti_, h))
          /\ calls' = Append(calls, <<i, FAdd(ti_, h)>>)
          /\ pc' = "update"
          /\ UNCHANGED <<args, h, t, x, i, k1, k2, k3, thrown, err, result>>
       \/ \E exc \in Excs : FRaises(FAdd(ti_, h), exc)

\* x[i+1] = x[i] + (1/6) * (k1+2*k2+2*k3+k4)   (RK4)
\* x[i+1] = x[i] + k2                          (RK2)
Update ==
    /\ pc = "update"
    /\ x' = [x EXCEPT ![NextIndex(i) + 1] =
                IF method = "RK4" THEN RK4Update(xi_, k1, k2, k3, k4)
                ELSE RK2Update(xi_, k1, k2)]
    /\ pc' = "for"
    /\ UNCHANGED <<args, h, t, i, ks, calls, thrown, err, result>>

\* x[i+1] = x[i] + h * f(x[i], t[i])           (Euler)
EulerStep ==
    /\ pc = "step"
    /\ \/ /\ x' = [x EXCEPT ![NextIndex(i) + 1] = EulerUpdate(xi_, h, f, ti_)]
          /\ calls' = Append(calls, <<i, ti_>>)
          /\ pc' = "for"
          /\ UNCHANGED <<args, h, t, i, ks, thrown, err, result>>
       \/ \E exc \in Excs : FRaises(ti_, exc)

\* return x
Return ==
    /\ pc = "return"
    /\ result' = x
    /\ pc' = "returned"
    /\ UNCHANGED <<args, h, t, x, i, ks, calls, thrown, err>>

Next ==
    \/ ComputeH
    \/ BuildGrid
    \/ AllocX
    \/ Seed
    \/ ForNext
    \/ StageK1
    \/ StageK2
    \/ StageK3
    \/ StageK4
    \/ Update
    \/ EulerStep
    \/ Return

Spec == Init /\ [][Next]_vars

----------------------------------------------------------------------------
(* The claims.                                                             *)

Returned == pc = "returned"

\* C1: for every integrator and every N > 1, a call that returns yields a
\* trajectory of exactly N values, index-aligned with a time grid of
\* exactly N points: len(result) == len(time_grid) == N.
C1_Shape ==
    (Returned /\ N > 1) => (Len(result) = N /\ Len(t) = N)

C1_Witness ==
    /\ Returned /\ N = 3 /\ method = "RK2"
    /\ Len(result) = 3 /\ Len(t) = 3

\* The statement x[0] = xi has run.
Seeded == x # Unset /\ pc # "seed"

\* C2: for all three integrators result[0] equals xi exactly, and index 0
\* is never overwritten by a later pass of the loop: once x[0] = xi has
\* run, x[0] is xi in every later state, and so is result[0].
C2_Seed ==
    /\ Seeded => x[1] = xi
    /\ Returned => result[1] = xi

C2_Witness ==
    /\ Returned /\ N = 3 /\ xi = One /\ f = "xplust"
    /\ result[1] = One /\ result[2] # One /\ result[3] # One

\* C4: a call with N = 1 or N = 0 raises a defined error for all three
\* integrators and never returns a trajectory.
C4_PreconditionError ==
    N <= 1 => ~Returned

\* The grid spacing (tf - ti)/(N - 1), for N >= 2.
Spacing == FDivInt(FSub(tf, ti), N - 1)

\* The statement t = np.linspace(ti, tf, N) has run, with N >= 2.
GridBuilt == t # Unset /\ N >= 2

C5_Propagates ==
    /\ [](thrown # "none" =>
            err = thrown /\ pc = "raised" /\ result = Unset)
    /\ [][thrown # "none" =>
            calls' = calls /\ result' = result /\ err' = err]_vars

C5_Witness ==
    /\ thrown = "ValueError" /\ err = "ValueError" /\ pc = "raised"
    /\ method = "RK4" /\ i = 1 /\ Len(calls) = 7 /\ k2 # Unset
    /\ result = Unset

\* C6: for every integrator, every N > 1 and every f returning finite
\* values, a call with ti == tf gives h == 0, a grid whose N points all
\* equal ti, and a trajectory of N values all equal to xi.
C6_Degenerate ==
    (ti = tf /\ N > 1) =>
        /\ h # Unset => h = Zero
        /\ t # Unset => (Len(t) = N /\ \A j \in 1..N : t[j] = ti)
        /\ Returned => (Len(result) = N /\ \A j \in 1..N : result[j] = xi)

C6_Witness ==
    /\ Returned /\ ti = One /\ tf = One /\ N = 3
    /\ f = "xplust" /\ xi = One /\ method = "RK4"
    /\ h = Zero /\ t = <<One, One, One>> /\ result = <<One, One, One>>

\* The reference recurrences of C7, C8 and C9, written from the claims:
\* trajectory[j] for the j of the code (from 0), with h = (tf - ti)/N and
\* the grid point t[j] of the state.
HRef == FDivInt(FSub(tf, ti), N)
Deriv(a, b) == FApply(f, a, b)
DocCall == f = "xplust" /\ <<N, xi, ti, tf>> = DocArgs

RECURSIVE RK4Ref(_)
RK4Ref(j) ==
    IF j = 0 THEN xi
    ELSE LET xp == RK4Ref(j - 1)
             tp == t[j]
             r1 == FMul(HRef, Deriv(xp, tp))
             r2 == FMul(HRef, Deriv(FAdd(xp, FDivInt(r1, 2)),
                                    FAdd(tp, FDivInt(HRef, 2))))
             r3 == FMul(HRef, Deriv(FAdd(xp, FDivInt(r2, 2)),
                                    FAdd(tp, FDivInt(HRef, 2))))
             r4 == FMul(HRef, Deriv(FAdd(xp, r3), FAdd(tp, HRef)))
             ws == FAdd(FAdd(FAdd(r1, FMul(Two, r2)), FMul(Two, r3)), r4)
         IN  FAdd(xp, FMul(FDivInt(One, 6), ws))

RECURSIVE RK2Ref(_)
RK2Ref(j) ==
    IF j = 0 THEN xi
    ELSE LET xp == RK2Ref(j - 1)
             tp == t[j]
             r1 == FMul(HRef, Deriv(xp, tp))
             r2 == FMul(HRef, Deriv(FAdd(xp, FDivInt(r1, 2)),
                                    FAdd(tp, FDivInt(HRef, 2))))
         IN  FAdd(xp, r2)

RECURSIVE EulerRef(_)
EulerRef(j) ==
    IF j = 0 THEN xi
    ELSE LET xp == EulerRef(j - 1)
         IN  FAdd(xp, FMul(HRef, Deriv(xp, t[j])))

\* The time of stage s (from 0) of a step that starts at grid time tv:
\* full, half, half, full for RK4; full, half for RK2.
StageTime(s, tv) ==
    CASE s = 0 -> tv
      [] s = 1 -> FAdd(tv, FDivInt(HRef, 2))
      [] s = 2 -> FAdd(tv, FDivInt(HRef, 2))
      [] s = 3 -> FAdd(tv, HRef)

\* f has been called stage by stage, step by step, in increasing order of
\* i, with per stages per step.
CallsInOrder(per) ==
    \A c \in 1..Len(calls) :
        LET step == (c - 1) \div per
        IN  calls[c] = <<step, StageTime((c - 1) % per, t[step + 1])>>

\* a < v < b
Between(a, v, b) == FLess(a, v) /\ FLess(v, b)

\* C7: RK4 computes, for i = 0..N-2 in increasing order, k1..k4 at the
\* stage offsets (full, half, half, full) and trajectory[i+1] =
\* trajectory[i] + (1/6)*(k1 + 2*k2 + 2*k3 + k4); the result equals the
\* reference recurrence for every input of the bounded set, and for
\* f(x,t) = x + t, N = 10, xi = 0, ti = 0, tf = 10 result[0] == 0 and
\* result[-1] is 8338.91 within the relative tolerance 1e-5
\* (8338.875 < result[-1] < 8338.9375).
C7_RK4 ==
    method = "RK4" =>
        /\ CallsInOrder(4)
        /\ Returned =>
              /\ Len(calls) = 4 * (N - 1)
              /\ \A j \in 0..(N - 1) : result[j + 1] = RK4Ref(j)
              /\ DocCall =>
                    /\ result[1] = Zero
                    /\ Between(<<66711, -3>>, result[10], <<133423, -4>>)

C7_Witness ==
    /\ method = "RK4" /\ Returned /\ DocCall
    /\ Len(calls) = 36
    /\ Between(<<66711, -3>>, result[10], <<133423, -4>>)

\* C8: RK2 computes, for i = 0..N-2 in increasing order, k1 = h*f(x_i, t_i)
\* and k2 = h*f(x_i + k1/2, t_i + h/2), then trajectory[i+1] =
\* trajectory[i] + k2: only k2 enters the update; for f(x,t) = x + t,
\* N = 10, xi = 0, ti = 0, tf = 10 result[-1] is 4086.19 within 1e-5
\* (4086.1875 < result[-1] < 4086.203125).
C8_RK2 ==
    method = "RK2" =>
        /\ CallsInOrder(2)
        /\ Returned =>
              /\ Len(calls) = 2 * (N - 1)
              /\ \A j \in 0..(N - 1) : result[j + 1] = RK2Ref(j)
              /\ DocCall =>
                    Between(<<65379, -4>>, result[10], <<261517, -6>>)

C8_Witness ==
    /\ method = "RK2" /\ Returned /\ DocCall
    /\ Len(calls) = 18
    /\ result[2] = <<1, -1>>
    /\ Between(<<65379, -4>>, result[10], <<261517, -6>>)

\* C9: Euler computes, for i = 0..N-2 in increasing order, trajectory[i+1]
\* = trajectory[i] + h * f(trajectory[i], time_grid[i]), with h = (tf - ti)/N
\* and time_grid[i] = ti + i*(tf - ti)/(N - 1); for f(x,t) = x + t,
\* N = 10, xi = 0, ti = 0, tf = 10 result[1] == 0 and result[-1] is
\* 5020/9 = 557.78 within 1e-5 (557.775390625 < result[-1] < 557.78125, and
\* 5019.96875 < 9 * result[-1] < 5020.03125).
C9_Euler ==
    method = "Euler" =>
        /\ CallsInOrder(1)
        /\ Returned =>
              /\ Len(calls) = N - 1
              /\ \A j \in 0..(N - 1) : result[j + 1] = EulerRef(j)
              /\ \A j \in 0..(N - 2) :
                    t[j + 1] = FAdd(ti, FMul(FromInt(j), Spacing))
              /\ DocCall =>
                    /\ result[2] = Zero
                    /\ Between(<<285581, -9>>, result[10], <<17849, -5>>)
                    /\ Between(<<160639, -5>>, FMul(FromInt(9), result[10]),
                               <<160641, -5>>)

C9_Witness ==
    /\ method = "Euler" /\ Returned /\ DocCall
    /\ Len(calls) = 9
    /\ result[2] = Zero
    /\ Between(<<285581, -9>>, result[10], <<17849, -5>>)

\* The step and the time argument of a recorded call of f.
StepOf(c) == c[1]
TimeOf(c) == c[2]
CallRange == {calls[c] : c \in 1..Len(calls)}
Forward == FLess(ti, tf) /\ N >= 2

\* C10, as claimed: for tf > ti and N >= 2, every time argument passed to
\* f lies in [ti, tf), and every stage time of step i is strictly below
\* time_grid[i+1].
C10_Original ==
    Forward =>
        \A c \in CallRange :
            /\ FLeq(ti, TimeOf(c))
            /\ FLess(TimeOf(c), tf)
            /\ FLess(TimeOf(c), t[StepOf(c) + 2])

\* C10, as amended: for tf > ti and N >= 2, h = (tf - ti)/N is strictly
\* smaller than the grid spacing (tf - ti)/(N - 1); every call of f belongs
\* to a step i <= N-2, so no step starts at the final grid point; and its
\* time argument is at least ti, at least time_grid[i] and at most the
\* rounded sum time_grid[i] + h.
C10_Amended ==
    Forward =>
        /\ h # Unset => FLess(h, Spacing)
        /\ \A c \in CallRange :
              /\ StepOf(c) \in 0..(N - 2)
              /\ FLeq(ti, TimeOf(c))
              /\ FLeq(t[StepOf(c) + 1], TimeOf(c))
              /\ FLeq(TimeOf(c), FAdd(t[StepOf(c) + 1], h))

\* A stage time that the rounding of time_grid[i] + h has put on tf.
C10_Witness ==
    /\ Forward /\ Returned /\ method = "RK4" /\ N = 3
    /\ ti = Big /\ tf = BigPlus4
    /\ t = <<Big, FAdd(Big, Two), BigPlus4>>
    /\ FLess(h, Two)
    /\ calls[8] = <<1, tf>>

====
